---- MODULE Spec2Model ----
(***************************************************************************)
(* gentoo-kernel-builder: KernelBuilder (src/src/lib.rs).                  *)
(*                                                                         *)
(* The builder scans /usr/src once at construction, lets the operator pick *)
(* one kernel source tree, links <tree>/.config and /usr/src/linux, and    *)
(* drives make, make modules_install and dracut.                           *)
(*                                                                         *)
(* Strings and paths are sequences of tokens ("linux", "-", "5.10", ...):  *)
(* a token stands for a run of characters, no token is a prefix of another *)
(* one, so prefix, suffix and equality on token sequences are those of the *)
(* strings they spell.                                                     *)
(***************************************************************************)
EXTENDS Naturals, Sequences, FiniteSets, TLC

VARIABLES
    dirents,   \* /usr/src: its children other than the alias, in read_dir order
    alias,     \* /usr/src/linux as lstat sees it
    dotcfg,    \* <version-dir>/.config as lstat sees it, per directory name
    cfgSrc,    \* what is at config.kernel_config_file_path
    versions,  \* KernelBuilder.versions
    pc,        \* position of the control flow in new()/build()
    sel,       \* version_entry of the running build
    result,    \* what build returned ("none" while it runs)
    procs,     \* external commands spawned by the running build, in order
    running,   \* the child process being waited on, "none" otherwise
    exits,     \* exit statuses of the children waited on, in order
    asked,     \* answers of the confirmation prompts of the running build
    calls,     \* fallible OS calls made by the running process, with their outcome
    lastLinked,\* version the tool last pointed /usr/src/linux at
    runs       \* build invocations started so far

vars == <<dirents, alias, dotcfg, cfgSrc, versions, pc, sel, result, procs,
          running, exits, asked, calls, lastLinked, runs>>

fsvars == <<dirents, alias, dotcfg, cfgSrc>>

(***************************************************************************)
(* Bounds.                                                                 *)
(***************************************************************************)
MaxEntries == 3   \* children of /usr/src listed in the scan-only specification
MaxRuns == 2      \* consecutive build invocations

(***************************************************************************)
(* Strings and paths.                                                      *)
(***************************************************************************)
StartsWith(s, p) == Len(s) >= Len(p) /\ SubSeq(s, 1, Len(p)) = p

EndsWith(s, p) == Len(s) >= Len(p) /\ SubSeq(s, Len(s) - Len(p) + 1, Len(s)) = p

LINUX_PATH == <<"/", "usr", "/", "src">>

\* Path::join of an absolute directory and a relative name
Join(dir, name) == dir \o <<"/">> \o name

\* Path::starts_with: whole components of `base` lead `path`
PathStartsWith(path, base) ==
    StartsWith(path, base) /\ (Len(path) = Len(base) \/ path[Len(base) + 1] = "/")

\* Path::strip_prefix(base).ok(): the rest of the path, without the separator
StripPrefix(path, base) == SubSeq(path, Len(base) + 2, Len(path))

\* str::strip_prefix("linux-"): <<TRUE, rest>> or <<FALSE, <<>>>> for None
StrStripPrefix(s, p) ==
    IF StartsWith(s, p) THEN <<TRUE, SubSeq(s, Len(p) + 1, Len(s))>>
    ELSE <<FALSE, <<>>>>

V510 == <<"linux", "-", "5.10", "-", "gentoo">>
VNoDash == <<"linux", "gentoo">>
VGone == <<"linux", "-", "4.19", "-", "gentoo">>
LinuxCurrent == <<"linux", "-", "current">>
OtherTree == <<"other", "-", "tree">>
OtherGentoo == <<"other", "-", "gentoo">>
AliasName == <<"linux">>

ScanNames == {V510, VNoDash, LinuxCurrent, OtherTree, OtherGentoo}
TreeNames == {V510, VNoDash}

KernelConfig == <<"/", "etc", "/", "kernel", "/", "config">>
StaleConfig == <<"/", "root", "/", "old", ".config">>

NoEntry == [path |-> <<>>, version_string |-> <<>>]
Absent == [kind |-> "absent", target |-> <<>>]
RegularFile == [kind |-> "file", target |-> <<>>]
Directory == [kind |-> "dir", target |-> <<>>]
Symlink(t) == [kind |-> "symlink", target |-> t]

(***************************************************************************)
(* The filesystem as the program's calls see it.                           *)
(***************************************************************************)
Entry(name, kind) == [name |-> name, kind |-> kind]

\* one fallible call and whether it succeeded
Op(name, ok) == [op |-> name, ok |-> ok]

\* the sequences of at most n children with pairwise distinct names
Listings(names, kinds, n) ==
    UNION {{l \in [1..k -> {Entry(nm, kd) : nm \in names, kd \in kinds}] :
                \A i, j \in 1..k : l[i].name = l[j].name => i = j} : k \in 0..n}

\* std::fs::read_dir(LINUX_PATH) mapped to dir.path(): every child, the alias included
ReadDir ==
    LET listed == IF alias.kind = "absent" THEN dirents
                  ELSE Append(dirents, Entry(AliasName, alias.kind))
    IN [i \in 1..Len(listed) |->
            [path |-> Join(LINUX_PATH, listed[i].name), kind |-> listed[i].kind]]

\* Path::exists of <version-dir>/.config: follows a symlink to its target
PathExists(e) ==
    CASE e.kind = "absent" -> FALSE
      [] e.kind = "symlink" -> e.target = KernelConfig /\ cfgSrc.kind # "absent"
      [] OTHER -> TRUE

\* whether the stored target of /usr/src/linux names something that exists
AliasResolves ==
    /\ alias.kind = "symlink"
    /\ LET name == IF PathStartsWith(alias.target, LINUX_PATH)
                   THEN StripPrefix(alias.target, LINUX_PATH)
                   ELSE alias.target
       IN \E i \in 1..Len(dirents) : dirents[i].name = name

(***************************************************************************)
(* KernelBuilder::new / get_available_version.                             *)
(***************************************************************************)
\* the first filter without its symlink test
IsCandidate_FollowsLinks(e) == PathStartsWith(e.path, LINUX_PATH)

\* line 62: the first filter
IsCandidate(e) == PathStartsWith(e.path, LINUX_PATH) /\ e.kind # "symlink"

\* lines 67-68: the test on the name
IsKernelName(version_string) ==
    StartsWith(version_string, <<"linux">>) /\ EndsWith(version_string, <<"gentoo">>)

IsVersion(e) == IsCandidate(e) /\ IsKernelName(StripPrefix(e.path, LINUX_PATH))

get_available_version(listed) ==
    LET kept == SelectSeq(listed, IsVersion)
    IN [i \in 1..Len(kept) |->
            [path |-> kept[i].path,
             version_string |-> StripPrefix(kept[i].path, LINUX_PATH)]]

\* new(): the scan; an unreadable /usr/src leaves the list empty
New ==
    /\ pc = "new"
    /\ \E readable \in BOOLEAN :
           /\ calls' = Append(calls, Op("read_dir", readable))
           /\ versions' = IF readable THEN get_available_version(ReadDir) ELSE <<>>
    /\ pc' = "start"
    /\ UNCHANGED <<fsvars, sel, result, procs, running, exits, asked, lastLinked,
                   runs>>

(***************************************************************************)
(* KernelBuilder::build, step by step.                                     *)
(***************************************************************************)
Finish(r) == pc' = "done" /\ result' = r

\* prompt_for_kernel_version, the two unwraps and the index: the prompt fails,
\* is cancelled, or (no items) cannot yield an index into the list
SelectPanics ==
    /\ pc = "start"
    /\ \E how \in {"err", "cancel"} \cup (IF versions = <<>> THEN {"index"} ELSE {}) :
           Finish("panic")
    /\ runs' = runs + 1
    /\ UNCHANGED <<fsvars, versions, sel, procs, running, exits, asked, calls,
                   lastLinked>>

SelectVersion ==
    /\ pc = "start"
    /\ \E i \in 1..Len(versions) : sel' = versions[i]
    /\ pc' = "config"
    /\ runs' = runs + 1
    /\ UNCHANGED <<fsvars, versions, result, procs, running, exits, asked, calls,
                   lastLinked>>

prompt_for_kernel_version == SelectPanics \/ SelectVersion

\* the step without its existence test
ConfigLinkExists_Never(e) == FALSE

\* line 89: link.exists()
ConfigLinkExists(e) == PathExists(e)

\* line 91: the configured source exists and is a regular file
ConfigSourceUsable == cfgSrc.kind # "absent" /\ cfgSrc.kind = "file"

\* lines 88-96
ConfigLink ==
    /\ pc = "config"
    /\ LET e == dotcfg[sel.version_string]
       IN IF ConfigLinkExists(e)
          THEN pc' = "alias" /\ UNCHANGED <<dotcfg, calls, result>>
          ELSE IF ~ConfigSourceUsable
          THEN Finish("KernelConfigMissing") /\ UNCHANGED <<dotcfg, calls>>
          ELSE \E ok \in IF e.kind = "absent" THEN BOOLEAN ELSE {FALSE} :
                   /\ calls' = Append(calls, Op("symlink_config", ok))
                   /\ IF ok
                      THEN /\ dotcfg' = [dotcfg EXCEPT ![sel.version_string] =
                                                            Symlink(KernelConfig)]
                           /\ pc' = "alias"
                           /\ UNCHANGED result
                      ELSE Finish("LinkingFileError") /\ UNCHANGED dotcfg
    /\ UNCHANGED <<dirents, alias, cfgSrc, versions, sel, procs, running, exits,
                   asked, lastLinked, runs>>

\* the comparison reduced to the kernel-source prefix
AliasMatches_ByPrefix(linux_target, version_string) ==
    StartsWith(linux_target, <<"linux">>) /\ StartsWith(version_string, <<"linux">>)

\* line 103: the stored target, as a string, against the version string
AliasMatches(linux_target, version_string) == linux_target = version_string

\* read_link whose failure is repaired by creating the alias
AliasRead_Repairs ==
    /\ pc = "alias"
    /\ calls' = Append(calls, Op("read_link", alias.kind = "symlink"))
    /\ pc' = IF alias.kind # "symlink" THEN "relink"
             ELSE IF AliasMatches(alias.target, sel.version_string)
             THEN "make" ELSE "remove"
    /\ UNCHANGED <<fsvars, versions, sel, result, procs, running, exits, asked,
                   lastLinked, runs>>

\* lines 98-103: read_link and the comparison
AliasRead ==
    /\ pc = "alias"
    /\ calls' = Append(calls, Op("read_link", alias.kind = "symlink"))
    /\ IF alias.kind # "symlink"
       THEN Finish("LinkingFileError")
       ELSE /\ pc' = IF AliasMatches(alias.target, sel.version_string)
                     THEN "make" ELSE "remove"
            /\ UNCHANGED result
    /\ UNCHANGED <<fsvars, versions, sel, procs, running, exits, asked, lastLinked,
                   runs>>

\* the removal with its result dropped
AliasRemove_Unchecked ==
    /\ pc = "remove"
    /\ \E ok \in BOOLEAN :
           /\ calls' = Append(calls, Op("remove_linux", ok))
           /\ alias' = IF ok THEN Absent ELSE alias
    /\ pc' = "relink"
    /\ UNCHANGED <<dirents, dotcfg, cfgSrc, versions, sel, result, procs, running,
                   exits, asked, lastLinked, runs>>

\* line 104
AliasRemove ==
    /\ pc = "remove"
    /\ \E ok \in BOOLEAN :
           /\ calls' = Append(calls, Op("remove_linux", ok))
           /\ IF ok
              THEN alias' = Absent /\ pc' = "relink" /\ UNCHANGED result
              ELSE Finish("LinkingFileError") /\ UNCHANGED alias
    /\ UNCHANGED <<dirents, dotcfg, cfgSrc, versions, sel, procs, running, exits,
                   asked, lastLinked, runs>>

\* the creation with its result dropped
AliasCreate_Unchecked ==
    /\ pc = "relink"
    /\ \E ok \in BOOLEAN :
           /\ calls' = Append(calls, Op("symlink_linux", ok))
           /\ alias' = IF ok THEN Symlink(sel.path) ELSE alias
           /\ lastLinked' = IF ok THEN sel.version_string ELSE lastLinked
    /\ pc' = "make"
    /\ UNCHANGED <<dirents, dotcfg, cfgSrc, versions, sel, result, procs, running,
                   exits, asked, runs>>

\* line 105
AliasCreate ==
    /\ pc = "relink"
    /\ \E ok \in BOOLEAN :
           /\ calls' = Append(calls, Op("symlink_linux", ok))
           /\ IF ok
              THEN /\ alias' = Symlink(sel.path)
                   /\ lastLinked' = sel.version_string
                   /\ pc' = "make"
                   /\ UNCHANGED result
              ELSE Finish("LinkingFileError") /\ UNCHANGED <<alias, lastLinked>>
    /\ UNCHANGED <<dirents, dotcfg, cfgSrc, versions, sel, procs, running, exits,
                   asked, runs>>

Proc(cmd, args) == [cmd |-> cmd, args |-> args]

\* Command::spawn of `p` at position `at`; a failure is KernelBuildFail
Spawn(at, p, waitAt) ==
    /\ pc = at
    /\ \E ok \in BOOLEAN :
           /\ calls' = Append(calls, Op(at, ok))
           /\ IF ok
              THEN /\ procs' = Append(procs, p)
                   /\ running' = p.cmd
                   /\ pc' = waitAt
                   /\ UNCHANGED result
              ELSE Finish("KernelBuildFail") /\ UNCHANGED <<procs, running>>
    /\ UNCHANGED <<fsvars, versions, sel, exits, asked, lastLinked, runs>>

\* the wait with a non-zero exit status treated as a failure
Wait_ChecksStatus(at, next) ==
    /\ pc = at
    /\ running' = "none"
    /\ \E ok \in BOOLEAN, status \in {0, 1} :
           /\ calls' = Append(calls, Op(at, ok))
           /\ exits' = IF ok THEN Append(exits, status) ELSE exits
           /\ IF ok /\ status = 0
              THEN (IF next = "done" THEN Finish("Ok")
                    ELSE pc' = next /\ UNCHANGED result)
              ELSE Finish("KernelBuildFail")
    /\ UNCHANGED <<fsvars, versions, sel, procs, asked, lastLinked, runs>>

\* Child::wait at position `at`: the exit status is returned and dropped
Wait(at, next) ==
    /\ pc = at
    /\ running' = "none"
    /\ \E ok \in BOOLEAN, status \in {0, 1} :
           /\ calls' = Append(calls, Op(at, ok))
           /\ IF ok
              THEN /\ exits' = Append(exits, status)
                   /\ (IF next = "done" THEN Finish("Ok")
                       ELSE pc' = next /\ UNCHANGED result)
              ELSE Finish("KernelBuildFail") /\ UNCHANGED exits
    /\ UNCHANGED <<fsvars, versions, sel, procs, asked, lastLinked, runs>>

\* build_kernel, lines 127-133
MakeSpawn == pc = "make" /\ Spawn("make", Proc("make", <<"-j">>), "make_wait")

\* build_kernel, lines 134-135
MakeWait == pc = "make_wait" /\ Wait("make_wait", "copy")

\* the copy with its result dropped
CopyImage_Unchecked ==
    /\ pc = "copy"
    /\ \E ok \in BOOLEAN : calls' = Append(calls, Op("copy_image", ok))
    /\ pc' = "confirm_modules"
    /\ UNCHANGED <<fsvars, versions, sel, result, procs, running, exits, asked,
                   lastLinked, runs>>

\* build_kernel, lines 137-143: std::fs::copy of arch/x86/boot/bzImage
CopyImage ==
    /\ pc = "copy"
    /\ \E ok \in BOOLEAN :
           /\ calls' = Append(calls, Op("copy_image", ok))
           /\ IF ok THEN pc' = "confirm_modules" /\ UNCHANGED result
              ELSE Finish("KernelBuildFail")
    /\ UNCHANGED <<fsvars, versions, sel, procs, running, exits, asked, lastLinked,
                   runs>>

\* the prompt with its error read as a "no"
Confirm_FailIsNo(at, yesAt, noAt) ==
    /\ pc = at
    /\ \E answer \in {"yes", "no", "fail"} :
           /\ asked' = Append(asked, answer)
           /\ IF answer = "yes" THEN pc' = yesAt /\ UNCHANGED result
              ELSE IF noAt = "done" THEN Finish("Ok")
              ELSE pc' = noAt /\ UNCHANGED result
    /\ UNCHANGED <<fsvars, versions, sel, procs, running, exits, calls, lastLinked,
                   runs>>

\* confirm_prompt at position `at`: Ok(true), Ok(false) or an error
Confirm(at, yesAt, noAt) ==
    /\ pc = at
    /\ \E answer \in {"yes", "no", "fail"} :
           /\ asked' = Append(asked, answer)
           /\ CASE answer = "fail" -> Finish("PromptError")
                [] answer = "yes" -> pc' = yesAt /\ UNCHANGED result
                [] answer = "no" ->
                       IF noAt = "done" THEN Finish("Ok")
                       ELSE pc' = noAt /\ UNCHANGED result
    /\ UNCHANGED <<fsvars, versions, sel, procs, running, exits, calls, lastLinked,
                   runs>>

\* line 110
ConfirmModules ==
    pc = "confirm_modules" /\ Confirm("confirm_modules", "modules", "confirm_initramfs")

\* install_kernel_modules, lines 150-158
ModulesSpawn ==
    pc = "modules"
        /\ Spawn("modules", Proc("make", <<"modules_install">>), "modules_wait")

\* install_kernel_modules, lines 159-165
ModulesWait == pc = "modules_wait" /\ Wait("modules_wait", "confirm_initramfs")

\* line 114
ConfirmInitramfs ==
    pc = "confirm_initramfs" /\ Confirm("confirm_initramfs", "dracut", "done")

\* line 183: version_string.strip_prefix("linux-")
KernelVersion(version_string) == StrStripPrefix(version_string, <<"linux", "-">>)

\* generate_initramfs, line 183: the unwrap of a None
DracutPanics ==
    /\ pc = "dracut"
    /\ ~KernelVersion(sel.version_string)[1]
    /\ Finish("panic")
    /\ UNCHANGED <<fsvars, versions, sel, procs, running, exits, asked, calls,
                   lastLinked, runs>>

\* generate_initramfs, lines 178-192
DracutSpawn ==
    /\ KernelVersion(sel.version_string)[1]
    /\ Spawn("dracut",
             Proc("dracut", <<"--hostonly", "--kver">>
                                \o KernelVersion(sel.version_string)[2]
                                \o <<"--force">>),
             "dracut_wait")

\* generate_initramfs, lines 193-199, and build's Ok(())
DracutWait == pc = "dracut_wait" /\ Wait("dracut_wait", "done")

\* main run again: a fresh process, a fresh builder, the filesystem as it was left
Restart ==
    /\ pc = "done"
    /\ runs < MaxRuns
    /\ pc' = "new"
    /\ versions' = <<>>
    /\ sel' = NoEntry
    /\ result' = "none"
    /\ procs' = <<>>
    /\ exits' = <<>>
    /\ asked' = <<>>
    /\ calls' = <<>>
    /\ UNCHANGED <<fsvars, running, lastLinked, runs>>

build ==
    \/ prompt_for_kernel_version
    \/ ConfigLink
    \/ AliasRead
    \/ AliasRemove
    \/ AliasCreate
    \/ MakeSpawn
    \/ MakeWait
    \/ CopyImage
    \/ ConfirmModules
    \/ ModulesSpawn
    \/ ModulesWait
    \/ ConfirmInitramfs
    \/ DracutPanics
    \/ DracutSpawn
    \/ DracutWait

(***************************************************************************)
(* Specifications.                                                         *)
(***************************************************************************)
ConfigStates == {Absent, RegularFile, Symlink(KernelConfig), Symlink(StaleConfig)}

AliasTargets == UNION {{n, Join(LINUX_PATH, n)} : n \in {V510, VNoDash, VGone}}

AliasStates == {Absent, Directory} \cup {Symlink(t) : t \in AliasTargets}

InitProcess ==
    /\ versions = <<>>
    /\ pc = "new"
    /\ sel = NoEntry
    /\ result = "none"
    /\ procs = <<>>
    /\ running = "none"
    /\ exits = <<>>
    /\ asked = <<>>
    /\ calls = <<>>
    /\ lastLinked = <<>>
    /\ runs = 0

\* a host with kernel source trees, before main starts
Init ==
    /\ dirents \in Listings(TreeNames, {"dir"}, MaxEntries)
    /\ alias \in AliasStates
    /\ dotcfg \in [TreeNames -> ConfigStates]
    /\ \A n \in TreeNames :
           (\A i \in 1..Len(dirents) : dirents[i].name # n) => dotcfg[n] = Absent
    /\ cfgSrc \in {Absent, RegularFile, Directory}
    /\ InitProcess

Next == New \/ build \/ Restart

Spec == Init /\ [][Next]_vars

\* any listing of /usr/src, for the scan alone
InitScan ==
    /\ dirents \in Listings(ScanNames, {"dir", "symlink"}, MaxEntries)
    /\ alias \in {Absent, Symlink(V510)}
    /\ dotcfg = [n \in TreeNames |-> Absent]
    /\ cfgSrc = RegularFile
    /\ InitProcess

NextScan == New

SpecScan == InitScan /\ [][NextScan]_vars

(***************************************************************************)
(* Vocabulary of the properties.                                           *)
(***************************************************************************)
Range(s) == {s[i] : i \in 1..Len(s)}

Called(name) == \E c \in Range(calls) : c.op = name

Failed(name) == Op(name, FALSE) \in Range(calls)

Make == Proc("make", <<"-j">>)
ModulesInstall == Proc("make", <<"modules_install">>)

Building == pc \notin {"new", "start"} /\ sel # NoEntry

TypedResults ==
    {"Ok", "KernelConfigMissing", "LinkingFileError", "KernelBuildFail", "PromptError"}

(***************************************************************************)
(* C1. When /usr/src/linux already points at the selected version's        *)
(* directory, by its bare name or by its absolute path, build goes on to   *)
(* the compile step without removing or recreating the alias: a removal is *)
(* only ever scheduled for an alias that points at another directory.      *)
(***************************************************************************)
C1_AliasAlreadyCurrentIsKept ==
    pc = "remove" => alias.target \notin {sel.version_string, sel.path}

(***************************************************************************)
(* C2. If the configured .config source does not exist or is not a regular *)
(* file, build fails with KernelConfigMissing whatever is on disk (also    *)
(* when <version-dir>/.config already exists), before any symlink call and *)
(* before any external process.                                            *)
(***************************************************************************)
C2_ConfigMissingAlwaysFails ==
    (Building /\ pc # "config" /\ cfgSrc.kind # "file")
        => /\ pc = "done"
           /\ result = "KernelConfigMissing"
           /\ procs = <<>>
           /\ \A c \in Range(calls) : c.op \in {"read_dir"}

(***************************************************************************)
(* C3. A failure of the compile stage (spawning make, waiting on it, or    *)
(* copying bzImage) ends build with KernelBuildFail; in that run no        *)
(* confirmation is asked and neither make modules_install nor dracut is    *)
(* spawned.                                                                *)
(***************************************************************************)
C3_CompileFailureEndsBuild ==
    (Failed("make") \/ Failed("make_wait") \/ Failed("copy_image"))
        => /\ pc = "done"
           /\ result = "KernelBuildFail"
           /\ asked = <<>>
           /\ Range(procs) \subseteq {Make}
           /\ ~Called("modules")
           /\ ~Called("dracut")

C3_Witness ==
    pc = "done" /\ Failed("copy_image") /\ procs = <<Make>> /\ Len(exits) = 1

(***************************************************************************)
(* C4. After a successful compile stage, whatever the two answers are, the *)
(* processes spawned in the run are the compiler and then the confirmed    *)
(* stages, in order, and build returns Ok (stated for runs in which no OS  *)
(* call failed and every child exited with status 0).                      *)
(***************************************************************************)
StageOf(p) ==
    IF p.cmd = "dracut" THEN "initramfs"
    ELSE IF p.args = <<"modules_install">> THEN "modules" ELSE "compile"

C4_OptionalStagesGated ==
    (/\ pc = "done"
     /\ Len(asked) = 2
     /\ "fail" \notin Range(asked)
     /\ \A c \in Range(calls) : c.ok
     /\ \A status \in Range(exits) : status = 0)
        => /\ result = "Ok"
           /\ [i \in 1..Len(procs) |-> StageOf(procs[i])]
                = <<"compile">>
                    \o (IF asked[1] = "yes" THEN <<"modules">> ELSE <<>>)
                    \o (IF asked[2] = "yes" THEN <<"initramfs">> ELSE <<>>)

(***************************************************************************)
(* C5. The scan done at construction returns exactly the children of       *)
(* /usr/src that are not symlinks and whose name starts with "linux" and   *)
(* ends with "gentoo", each once, with its path under /usr/src; for        *)
(* linux-5.10-gentoo, linux-current (a symlink) and other-tree it returns  *)
(* linux-5.10-gentoo alone.                                                *)
(***************************************************************************)
ExampleListing ==
    {Entry(V510, "dir"), Entry(LinuxCurrent, "symlink"), Entry(OtherTree, "dir")}

C5_ScanKeepsExactlyKernelTrees ==
    (pc = "start" /\ Op("read_dir", TRUE) \in Range(calls))
        => /\ {v.version_string : v \in Range(versions)}
                = {d.name : d \in {x \in Range(dirents) :
                                      /\ x.kind # "symlink"
                                      /\ Head(x.name) = "linux"
                                      /\ x.name[Len(x.name)] = "gentoo"}}
           /\ \A i, j \in 1..Len(versions) : versions[i] = versions[j] => i = j
           /\ \A v \in Range(versions) : v.path = LINUX_PATH \o <<"/">> \o v.version_string
           /\ Range(dirents) = ExampleListing
                => versions = <<[path |-> <<"/", "usr", "/", "src", "/", "linux", "-",
                                            "5.10", "-", "gentoo">>,
                                 version_string |-> V510]>>

C5_Witness ==
    /\ pc = "start"
    /\ Range(dirents) = ExampleListing
    /\ Len(versions) = 1
    /\ versions[1].version_string = V510

(***************************************************************************)
(* C6. The config-link step is idempotent and non-destructive: it changes  *)
(* <version-dir>/.config only from absent to a link to the configured      *)
(* source, a failed step changes nothing, after a successful step          *)
(* something exists at the path, and on a path where something exists the  *)
(* step is a no-op that makes no call, so a second step leaves what the    *)
(* first left.                                                             *)
(***************************************************************************)
C6_ConfigLinkIdempotent ==
    [][/\ \A n \in TreeNames :
              dotcfg'[n] # dotcfg[n]
                  => /\ pc = "config"
                     /\ pc' = "alias"
                     /\ n = sel.version_string
                     /\ dotcfg[n] = Absent
                     /\ dotcfg'[n] = Symlink(KernelConfig)
       /\ (pc = "config" /\ pc' = "alias")
              => PathExists(dotcfg[sel.version_string])'
       /\ (pc = "config" /\ PathExists(dotcfg[sel.version_string]))
              => /\ pc' = "alias"
                 /\ dotcfg' = dotcfg
                 /\ calls' = calls
                 /\ result' = result]_vars

C6_Witness ==
    /\ pc = "alias"
    /\ Op("symlink_config", TRUE) \in Range(calls)
    /\ dotcfg[sel.version_string] = Symlink(KernelConfig)

(***************************************************************************)
(* C7. Every build invocation ends with Ok or one of the typed errors,     *)
(* never with a panic, also when the scan found nothing or the operator    *)
(* cancels the selection.                                                  *)
(***************************************************************************)
C7_BuildNeverPanics == pc = "done" => result \in TypedResults

(***************************************************************************)
(* C8, as claimed. At the alias step, an alias that is absent or broken    *)
(* (its target does not exist) ends build with LinkingFileError and is     *)
(* left as it was.                                                         *)
(***************************************************************************)
C8_AbsentOrBrokenAliasFails ==
    [][(pc = "alias" /\ ~AliasResolves)
           => (pc' = "done" /\ result' = "LinkingFileError" /\ alias' = alias)]_vars

(***************************************************************************)
(* C8, amended. At the alias step, an alias that cannot be read as a link  *)
(* (absent, or not a symlink) ends build with LinkingFileError: the alias  *)
(* is left as it was and nothing was spawned. A broken link is read like   *)
(* any other: its target differs from the version string, and build goes   *)
(* on to remove and recreate it.                                           *)
(***************************************************************************)
C8_UnreadableAliasFails ==
    [][/\ (pc = "alias" /\ alias.kind # "symlink")
              => /\ pc' = "done"
                 /\ result' = "LinkingFileError"
                 /\ alias' = alias
                 /\ procs' = <<>>
       /\ (pc = "alias" /\ alias.kind = "symlink" /\ ~AliasResolves)
              => (pc' = "remove" /\ result' = "none" /\ alias' = alias)]_vars

C8_Witness ==
    /\ pc = "done"
    /\ result = "LinkingFileError"
    /\ Failed("read_link")
    /\ alias = Absent
    /\ procs = <<>>

(***************************************************************************)
(* C9. If anything is at <version-dir>/.config (a file, a link to an       *)
(* existing file, or a link whose target is missing), the config-link step *)
(* makes no call, reports no error and build continues to the alias step   *)
(* (stated for a configured source that is a regular file).                *)
(***************************************************************************)
C9_ExistingConfigIsLeftAlone ==
    [][(pc = "config" /\ dotcfg[sel.version_string] # Absent /\ cfgSrc = RegularFile)
           => (pc' = "alias" /\ calls' = calls /\ result' = result)]_vars

(***************************************************************************)
(* C10. Once an invocation has pointed /usr/src/linux at version V, a      *)
(* later invocation that selects V finds the alias current and does not    *)
(* remove or recreate it.                                                  *)
(***************************************************************************)
C10_OwnLinkIsRecognised ==
    ~(/\ pc = "remove"
      /\ runs >= 2
      /\ lastLinked = sel.version_string
      /\ alias = Symlink(sel.path))

(***************************************************************************)
(* C11. Within one invocation the steps come in the fixed order selection, *)
(* config link, alias, make, image copy, module install, initramfs: a call *)
(* is made only after every earlier call of the run returned successfully  *)
(* (success of a child meaning that the wait on it returned), each         *)
(* optional stage only after its confirmation, at most one child is        *)
(* running at any time, and the first failure ends the invocation: nothing *)
(* is written or spawned after it.                                         *)
(***************************************************************************)
CallOrder ==
    <<"read_dir", "symlink_config", "read_link", "remove_linux", "symlink_linux",
      "make", "make_wait", "copy_image", "modules", "modules_wait", "dracut",
      "dracut_wait">>

RankOf(name) == CHOOSE i \in 1..Len(CallOrder) : CallOrder[i] = name

Waits == {c \in 1..Len(calls) : calls[c].op \in {"make_wait", "modules_wait", "dracut_wait"}}

StepsInOrder ==
    /\ \A i, j \in 1..Len(calls) : i < j => RankOf(calls[i].op) < RankOf(calls[j].op)
    /\ \A i \in 1..Len(calls) : i < Len(calls) => calls[i].ok
    /\ (calls # <<>> /\ ~calls[Len(calls)].ok /\ calls[Len(calls)].op # "read_dir")
           => (pc = "done" /\ result \in TypedResults \ {"Ok"})
    /\ (Called("symlink_config") \/ Called("read_link")) => sel # NoEntry
    /\ Called("read_link") => PathExists(dotcfg[sel.version_string])
    /\ Called("make") => (Op("read_link", TRUE) \in Range(calls) /\ alias.kind = "symlink")
    /\ asked # <<>> => Op("copy_image", TRUE) \in Range(calls)
    /\ Called("modules") => (asked # <<>> /\ asked[1] = "yes")
    /\ Len(asked) = 2 => (asked[1] = "no" \/ Op("modules_wait", TRUE) \in Range(calls))
    /\ Called("dracut") => (Len(asked) = 2 /\ asked[2] = "yes")
    /\ Len(procs) - Cardinality(Waits) = (IF running = "none" THEN 0 ELSE 1)
    /\ Len(procs) = Cardinality({c \in Range(calls) :
                                     c.ok /\ c.op \in {"make", "modules", "dracut"}})

C11_StepsInFixedOrder ==
    [][/\ StepsInOrder'
       /\ pc = "done" => (pc' = "new" /\ UNCHANGED fsvars /\ procs' = <<>>)]_vars

C11_Witness ==
    /\ pc = "done"
    /\ result = "Ok"
    /\ asked = <<"yes", "yes">>
    /\ [i \in 1..Len(calls) |-> calls[i].op] = CallOrder

(***************************************************************************)
(* C12. The alias is replaced in two steps, remove then create. Between    *)
(* the two /usr/src/linux is absent; if the create then fails it stays     *)
(* absent (the old target is not restored), build ends with                *)
(* LinkingFileError, nothing is spawned, and a .config link created        *)
(* earlier in the run is still in place.                                   *)
(***************************************************************************)
C12_FailedRelinkLeavesAliasAbsent ==
    /\ pc = "relink"
           => /\ alias = Absent
              /\ calls[Len(calls)] = Op("remove_linux", TRUE)
              /\ result = "none"
    /\ Failed("symlink_linux")
           => /\ Op("remove_linux", TRUE) \in Range(calls)
              /\ alias = Absent
              /\ pc = "done"
              /\ result = "LinkingFileError"
              /\ procs = <<>>
              /\ ~Called("make")
              /\ Op("symlink_config", TRUE) \in Range(calls)
                     => dotcfg[sel.version_string] = Symlink(KernelConfig)

C12_Witness ==
    /\ Failed("symlink_linux")
    /\ Op("symlink_config", TRUE) \in Range(calls)
    /\ alias = Absent
    /\ dotcfg[sel.version_string] = Symlink(KernelConfig)

(***************************************************************************)
(* C13. The exit status of a child does not influence the pipeline: after  *)
(* a wait that returned, with status zero or not, build takes the same     *)
(* next step (the image copy after make, the second confirmation after     *)
(* make modules_install, Ok after dracut); KernelBuildFail comes only from *)
(* a failed spawn, a failed wait or a failed image copy.                   *)
(***************************************************************************)
AfterWait(at) ==
    CASE at = "make_wait" -> "copy"
      [] at = "modules_wait" -> "confirm_initramfs"
      [] at = "dracut_wait" -> "done"

C13_ExitStatusIsIgnored ==
    [][/\ (pc \in {"make_wait", "modules_wait", "dracut_wait"}
              /\ Len(exits') = Len(exits) + 1)
              => /\ pc' = AfterWait(pc)
                 /\ result' = IF pc = "dracut_wait" THEN "Ok" ELSE "none"
                 /\ calls' = Append(calls, Op(pc, TRUE))
                 /\ UNCHANGED <<fsvars, procs, asked, sel>>
       /\ result' = "KernelBuildFail"
              => /\ calls' # <<>>
                 /\ ~calls'[Len(calls')].ok
                 /\ calls'[Len(calls')].op \in
                        {"make", "make_wait", "copy_image", "modules", "modules_wait",
                         "dracut", "dracut_wait"}]_vars

C13_Witness ==
    /\ pc = "done"
    /\ result = "Ok"
    /\ exits = <<1, 1, 1>>
    /\ [i \in 1..Len(procs) |-> StageOf(procs[i])] = <<"compile", "modules", "initramfs">>

(***************************************************************************)
(* C14. A failure of a confirmation prompt is an error, not a "no": build  *)
(* ends with PromptError and no later stage runs (after a failed first     *)
(* prompt neither make modules_install nor dracut is spawned and the       *)
(* second prompt is not asked; after a failed second prompt dracut is not  *)
(* spawned). A "no" skips its own stage only: after a "no" to the first    *)
(* prompt the second is asked, after a "no" to the second build returns Ok.*)
(***************************************************************************)
C14_PromptFailureIsAnError ==
    [][/\ ("fail" \in Range(asked'))
              => /\ pc' = "done"
                 /\ result' = "PromptError"
                 /\ asked'[Len(asked')] = "fail"
                 /\ ~(\E p \in Range(procs') : StageOf(p) = "initramfs")
                 /\ asked'[1] = "fail" => (asked' = <<"fail">> /\ procs' = <<Make>>)
       /\ (pc = "confirm_modules" /\ asked' = Append(asked, "no"))
              => (pc' = "confirm_initramfs" /\ result' = "none" /\ procs' = procs)
       /\ (pc = "confirm_initramfs" /\ asked' = Append(asked, "no"))
              => (pc' = "done" /\ result' = "Ok" /\ procs' = procs)]_vars

C14_Witness ==
    /\ pc = "done"
    /\ result = "PromptError"
    /\ asked = <<"fail">>
    /\ procs = <<Make>>

(***************************************************************************)
(* C15. Whenever build has spawned an external process, /usr/src/linux is  *)
(* a symlink that resolves to the directory of the version selected in the *)
(* run, that directory is a child of /usr/src, and something exists at     *)
(* <version-dir>/.config (one invocation at a time, no other writer).      *)
(***************************************************************************)
ResolvedFrom(dir, target) == IF Head(target) = "/" THEN target ELSE dir \o <<"/">> \o target

C15_ProcessesSeeCurrentTree ==
    (procs # <<>> \/ running # "none")
        => /\ alias.kind = "symlink"
           /\ ResolvedFrom(LINUX_PATH, alias.target) = sel.path
           /\ \E d \in Range(dirents) :
                  d.kind = "dir" /\ LINUX_PATH \o <<"/">> \o d.name = sel.path
           /\ dotcfg[sel.version_string] # Absent
           /\ PathExists(dotcfg[sel.version_string])

C15_Witness ==
    /\ running = "dracut"
    /\ Len(procs) = 3
    /\ alias = Symlink(sel.path)
    /\ Op("symlink_linux", TRUE) \in Range(calls)
    /\ dotcfg[sel.version_string] = RegularFile

(***************************************************************************)
(* C16. For every entry the scan can return, the initramfs stage derives   *)
(* the kernel version by stripping "linux-" and goes on to spawn dracut    *)
(* with it: a confirmed initramfs stage never ends abnormally while        *)
(* deriving the identifier.                                                *)
(***************************************************************************)
C16_KernelVersionAlwaysDerivable ==
    (Len(asked) = 2 /\ asked[2] = "yes" /\ pc = "done" /\ ~Failed("dracut"))
        => /\ result # "panic"
           /\ \E p \in Range(procs) :
                  /\ p.cmd = "dracut"
                  /\ <<"linux", "-">> \o SubSeq(p.args, 3, Len(p.args) - 1)
                         = sel.version_string
====
